---------------------------- MODULE Spec2Model ----------------------------
(* KMeansCluster (clustering/packages/graspologic/cluster/kclust.py):      *)
(* construction of a selector and fit(X, y), which sweeps the candidate    *)
(* cluster counts, scores each fitted model and keeps one.                 *)
(* The fitting and scoring primitives (sklearn KMeans, silhouette_score,   *)
(* adjusted_rand_score) are external: each returns any score of a small    *)
(* ordered set, or raises; with an integer random_state they are           *)
(* deterministic, which is modelled by remembering what each returned.     *)
EXTENDS Integers, Sequences, FiniteSets

\* ------------------------------------------------------------- bounds
\* largest max_clusters a constructor call is given
MaxClustersArg == 3
\* smallest integer max_clusters a constructor call is given is -MinClustersNeg
MinClustersNeg == 1
\* largest number of rows of X
MaxRows == 3
\* scores are 0..MaxScore, ordered as the floats they stand for
MaxScore == 1
\* integer seeds are 0..MaxSeed
MaxSeed == 0
\* number of fit calls made on the selector
MaxCalls == 2

\* ------------------------------------------------------------- values
\* a Python value given as max_clusters: its type and, for numbers, its value
\* (a str "3" and a float 3.0 carry 3; bool False/True carry 0/1)
ClusterArgs ==
    [type : {"int"}, val : (0 - MinClustersNeg)..MaxClustersArg]
      \cup [type : {"bool"}, val : 0..1]
      \cup [type : {"str", "float"}, val : {MaxClustersArg}]
      \cup [type : {"NoneType"}, val : {0}]

\* random_state: None or an integer seed
NoneState == [type |-> "NoneType", val |-> 0]

RandomStates == {NoneState} \cup [type : {"int"}, val : 0..MaxSeed]

\* an attribute that does not exist has this placeholder as its value
NoArg == [type |-> "absent", val |-> 0]

\* X: a dataset, known by its n_samples rows (X.shape[0])
NoX == [rows |-> 0]

Datasets == [rows : 1..MaxRows]

\* y: None, or a label vector
NoneY == [some |-> FALSE, id |-> 0]

Labels == {NoneY, [some |-> TRUE, id |-> 1]}

Scores == 0..MaxScore

\* Optional[List[float]]
NoneList == [some |-> FALSE, val |-> <<>>]

Some(s) == [some |-> TRUE, val |-> s]

\* a KMeans object: the n_clusters and random_state it was made with
NoModel == [n_clusters |-> 0, random_state |-> NoneState]

ResultAttrs == {"n_clusters_", "model_", "silhouette_", "ari_"}

VARIABLES
    obj,            \* "absent" | "live": whether a selector was constructed
    ctorArg,        \* max_clusters argument of the last constructor call
    ctorSeedArg,    \* random_state argument of the last constructor call
    ctorOutcome,    \* "none" | "ok" | "ValueError" | "TypeError"
    max_clusters,   \* self.max_clusters
    random_state,   \* self.random_state
    attrs,          \* the result attributes that exist on self
    n_clusters_,    \* self.n_clusters_
    model_,         \* self.model_
    silhouette_,    \* self.silhouette_
    ari_,           \* self.ari_ (NoneList is None)
    pc,             \* "idle" | "loop": position of the fit call in progress
    X, y,           \* arguments of the current (or last) fit call
    n,              \* loop variable of the sweep
    models, silhouettes, aris,  \* locals of fit
    outcome,        \* how the last fit call ended: "none" | "ok" | "ValueError"
                    \* | "Propagated" | "ArgmaxError"
    silMemo,        \* what silhouette_score returned for seeded fits: <<X, seed, n, s>>
    ariMemo,        \* what adjusted_rand_score returned for seeded fits: <<X, y, seed, n, a>>
    calls,          \* number of fit calls made
    log,            \* candidates evaluated in the current (or last) call: [n, sil, ari]
    last,           \* the last successful call: its arguments and its sweep
    prevArgs        \* the arguments of the successful call before that one

cfg == <<obj, ctorArg, ctorSeedArg, ctorOutcome, max_clusters, random_state>>
results == <<attrs, n_clusters_, model_, silhouette_, ari_>>
locals == <<n, models, silhouettes, aris>>
memos == <<silMemo, ariMemo>>
hist == <<log, last, prevArgs>>
vars == <<cfg, results, pc, X, y, locals, outcome, memos, calls, hist>>

\* ------------------------------------------------------------- __init__
\* isinstance(max_clusters, int): bool is a subclass of int
IsInstanceInt(v) == v.type \in {"int", "bool"}

CtorOutcome_lt1(v) ==
    IF IsInstanceInt(v)
    THEN IF v.val < 1 THEN "ValueError" ELSE "ok"
    ELSE "TypeError"

\* the outcome of KMeansCluster(max_clusters=v)
CtorOutcome(v) ==
    IF IsInstanceInt(v)
    THEN IF v.val <= 1 THEN "ValueError" ELSE "ok"
    ELSE "TypeError"

Construct ==
    /\ obj = "absent"
    /\ \E v \in ClusterArgs, rs \in RandomStates :
        /\ ctorArg' = v
        /\ ctorSeedArg' = rs
        /\ ctorOutcome' = CtorOutcome(v)
        /\ IF CtorOutcome(v) = "ok"
           THEN /\ obj' = "live"
                /\ max_clusters' = v
                /\ random_state' = rs
           ELSE UNCHANGED <<obj, max_clusters, random_state>>
    /\ UNCHANGED <<results, pc, X, y, locals, outcome, memos, calls, hist>>

\* ------------------------------------------------------------- fit
ExceedsSamples_ge(mc, rows) == mc >= rows

\* self.max_clusters > X.shape[0]
ExceedsSamples(mc, rows) == mc > rows

\* first candidate count of range(2, max_clusters + 1)
RangeStart == 2

LoopDone_short(k, mc) == k >= mc

\* range(2, max_clusters + 1) is exhausted at k
LoopDone(k, mc) == k > mc

\* fit(X, y) up to the start of the sweep: the sample-count check, the locals
FitCall ==
    /\ obj = "live" /\ pc = "idle" /\ calls < MaxCalls
    /\ \E x \in Datasets, l \in Labels :
        /\ X' = x /\ y' = l
        /\ IF ExceedsSamples(max_clusters.val, x.rows)
           THEN /\ outcome' = "ValueError"
                /\ pc' = "idle"
                /\ UNCHANGED locals
           ELSE /\ outcome' = "none"
                /\ pc' = "loop"
                /\ n' = RangeStart
                /\ models' = <<>> /\ silhouettes' = <<>> /\ aris' = <<>>
    /\ calls' = calls + 1
    /\ log' = <<>>
    /\ UNCHANGED <<cfg, results, memos, last, prevArgs>>

KMeansSeed_dropped(rs) == NoneState

\* the random_state KMeans(n_clusters=n, random_state=random_state) is given
KMeansSeed(rs) == rs

\* an integer seed makes the fitting primitive, and so the scores, repeatable
Deterministic(seed) == seed.type = "int"

\* the scores silhouette_score(X, predictions) can return for candidate k
SilReturns(x, seed, k) ==
    IF Deterministic(seed) /\ \E m \in silMemo : m[1] = x /\ m[2] = seed /\ m[3] = k
    THEN {m[4] : m \in {mm \in silMemo : mm[1] = x /\ mm[2] = seed /\ mm[3] = k}}
    ELSE Scores

\* the scores adjusted_rand_score(y, predictions) can return for candidate k
AriReturns(x, l, seed, k) ==
    IF Deterministic(seed)
         /\ \E m \in ariMemo : m[1] = x /\ m[2] = l /\ m[3] = seed /\ m[4] = k
    THEN {m[5] : m \in {mm \in ariMemo :
                          mm[1] = x /\ mm[2] = l /\ mm[3] = seed /\ mm[4] = k}}
    ELSE Scores

FitIter_writes ==
    /\ pc = "loop" /\ ~LoopDone(n, max_clusters.val)
    /\ LET seed == KMeansSeed(random_state)
           model == [n_clusters |-> n, random_state |-> seed]
       IN \E s \in SilReturns(X, seed, n),
             a \in IF y.some THEN AriReturns(X, y, seed, n) ELSE {0} :
            /\ models' = Append(models, model)
            /\ silhouettes' = Append(silhouettes, s)
            /\ aris' = IF y.some THEN Append(aris, a) ELSE aris
            /\ silhouette_' = Append(silhouettes, s)
            /\ attrs' = attrs \cup {"silhouette_"}
            /\ silMemo' = IF Deterministic(seed)
                          THEN silMemo \cup {<<X, seed, n, s>>} ELSE silMemo
            /\ ariMemo' = IF Deterministic(seed) /\ y.some
                          THEN ariMemo \cup {<<X, y, seed, n, a>>} ELSE ariMemo
            /\ log' = Append(log, [n |-> n, sil |-> s, ari |-> a])
    /\ n' = n + 1
    /\ UNCHANGED <<cfg, n_clusters_, model_, ari_, pc, X, y, outcome, calls,
                   last, prevArgs>>

\* one iteration of the sweep: fit candidate n, score it, append to the locals
FitIter ==
    /\ pc = "loop" /\ ~LoopDone(n, max_clusters.val)
    /\ LET seed == KMeansSeed(random_state)
           model == [n_clusters |-> n, random_state |-> seed]
       IN \E s \in SilReturns(X, seed, n),
             a \in IF y.some THEN AriReturns(X, y, seed, n) ELSE {0} :
            /\ models' = Append(models, model)
            /\ silhouettes' = Append(silhouettes, s)
            /\ aris' = IF y.some THEN Append(aris, a) ELSE aris
            /\ silMemo' = IF Deterministic(seed)
                          THEN silMemo \cup {<<X, seed, n, s>>} ELSE silMemo
            /\ ariMemo' = IF Deterministic(seed) /\ y.some
                          THEN ariMemo \cup {<<X, y, seed, n, a>>} ELSE ariMemo
            /\ log' = Append(log, [n |-> n, sil |-> s, ari |-> a])
    /\ n' = n + 1
    /\ UNCHANGED <<cfg, results, pc, X, y, outcome, calls, last, prevArgs>>

\* fit_predict, silhouette_score or adjusted_rand_score raises at candidate n:
\* nothing catches it, fit's frame and its locals are gone
FitRaise ==
    /\ pc = "loop" /\ ~LoopDone(n, max_clusters.val)
    /\ pc' = "idle"
    /\ outcome' = "Propagated"
    /\ n' = 0 /\ models' = <<>> /\ silhouettes' = <<>> /\ aris' = <<>>
    /\ UNCHANGED <<cfg, results, X, y, memos, calls, hist>>

\* np.argmax of a non-empty list: the 0-based index of the first maximum
ArgMax(s) ==
    CHOOSE i \in 0..(Len(s) - 1) :
        \A j \in 0..(Len(s) - 1) :
            /\ s[j + 1] <= s[i + 1]
            /\ (j < i => s[j + 1] < s[i + 1])

\* self.n_clusters_ = np.argmax(scores) + 1
SelectedCount(scores) == ArgMax(scores) + 1

\* self.model_ = models[np.argmax(scores)] (models is 1-based here)
SelectedModel(ms, scores) == ms[ArgMax(scores) + 1]

ResultAri_always(l, as) == Some(as)

\* self.ari_ = aris if y is not None, else None
ResultAri(l, as) == IF l.some THEN Some(as) ELSE NoneList

\* the list the selection is made on
Selection(l, sils, as) == IF l.some THEN as ELSE sils

\* after the sweep: the result attributes are assigned and fit returns self.
\* (np.argmax raises on an empty list, after ari_ and silhouette_ were assigned)
FitSelect ==
    /\ pc = "loop" /\ LoopDone(n, max_clusters.val)
    /\ LET sel == Selection(y, silhouettes, aris) IN
        /\ ari_' = ResultAri(y, aris)
        /\ silhouette_' = silhouettes
        /\ IF sel = <<>>
           THEN /\ attrs' = attrs \cup {"ari_", "silhouette_"}
                /\ outcome' = "ArgmaxError"
                /\ UNCHANGED <<n_clusters_, model_, last, prevArgs>>
           ELSE /\ attrs' = ResultAttrs
                /\ n_clusters_' = SelectedCount(sel)
                /\ model_' = SelectedModel(models, sel)
                /\ outcome' = "ok"
                /\ last' = [valid |-> TRUE, X |-> X, y |-> y,
                            models |-> models, silhouettes |-> silhouettes,
                            aris |-> aris, log |-> log]
                /\ prevArgs' = [valid |-> last.valid, X |-> last.X, y |-> last.y]
    /\ pc' = "idle"
    /\ n' = 0 /\ models' = <<>> /\ silhouettes' = <<>> /\ aris' = <<>>
    /\ UNCHANGED <<cfg, X, y, memos, calls, log>>

\* ------------------------------------------------------------- the machine
NoCall ==
    [valid |-> FALSE, X |-> NoX, y |-> NoneY, models |-> <<>>,
     silhouettes |-> <<>>, aris |-> <<>>, log |-> <<>>]

Init ==
    /\ obj = "absent"
    /\ ctorArg = NoArg /\ ctorSeedArg = NoArg /\ ctorOutcome = "none"
    /\ max_clusters = NoArg /\ random_state = NoArg
    /\ attrs = {} /\ n_clusters_ = 0 /\ model_ = NoModel
    /\ silhouette_ = <<>> /\ ari_ = NoneList
    /\ pc = "idle" /\ X = NoX /\ y = NoneY
    /\ n = 0 /\ models = <<>> /\ silhouettes = <<>> /\ aris = <<>>
    /\ outcome = "none"
    /\ silMemo = {} /\ ariMemo = {}
    /\ calls = 0
    /\ log = <<>> /\ last = NoCall
    /\ prevArgs = [valid |-> FALSE, X |-> NoX, y |-> NoneY]

Next == Construct \/ FitCall \/ FitIter \/ FitRaise \/ FitSelect

Spec == Init /\ [][Next]_vars

TypeOK ==
    /\ obj \in {"absent", "live"}
    /\ pc \in {"idle", "loop"}
    /\ outcome \in {"none", "ok", "ValueError", "Propagated", "ArgmaxError"}
    /\ attrs \subseteq ResultAttrs
    /\ calls \in 0..MaxCalls

\* ------------------------------------------------------------- properties
\* the selection list of the last successful call, as left on the selector
Selected == IF y.some THEN ari_.val ELSE silhouette_

FitOk == pc = "idle" /\ outcome = "ok"

\* C1: after a successful fit, n_clusters_ is the 0-based index of the first
\* maximum of ari_ (y given) or of silhouette_ (y absent), plus 2.
C1_ArgmaxPlusTwo == FitOk => n_clusters_ = ArgMax(Selected) + 2

\* C2: after a successful fit, n_clusters_ lies in 2..max_clusters.
C2_CountInRange == FitOk => n_clusters_ \in 2..max_clusters.val

\* C3: after a successful fit, model_ was fitted with n_clusters_ clusters.
C3_ModelMatchesCount == FitOk => model_.n_clusters = n_clusters_

\* C4: after a successful fit, silhouette_ (and ari_ when y was given) has
\* max_clusters - 1 entries, the candidates evaluated were 2..max_clusters in
\* ascending order, each once, and entry i (0-based) is the score candidate
\* i + 2 got.
C4_SweepShape ==
    FitOk =>
        /\ Len(silhouette_) = max_clusters.val - 1
        /\ Len(last.log) = max_clusters.val - 1
        /\ y.some => ari_.some /\ Len(ari_.val) = max_clusters.val - 1
        /\ \A i \in 1..Len(last.log) :
            /\ last.log[i].n = (i - 1) + 2
            /\ silhouette_[i] = last.log[i].sil
            /\ y.some => ari_.val[i] = last.log[i].ari

C4_Witness ==
    /\ FitOk /\ y.some /\ max_clusters.val = 3
    /\ Len(silhouette_) = 2 /\ Len(ari_.val) = 2
    /\ silhouette_[1] # silhouette_[2] /\ ari_.val[1] # ari_.val[2]

\* the largest score of a non-empty list
MaxOf(s) == CHOOSE m \in {s[i] : i \in 1..Len(s)} : \A i \in 1..Len(s) : s[i] <= m

\* several candidates share the maximal selection score
Tied == Cardinality({i \in 1..Len(Selected) : Selected[i] = MaxOf(Selected)}) > 1

\* C5: when several candidates share the maximal selection score, fit selects
\* the lowest such candidate count, and the model fitted for it.
C5_FirstMaximum ==
    (FitOk /\ Tied) =>
        \A i \in 1..Len(Selected) :
            (Selected[i] = MaxOf(Selected) /\ \A j \in 1..(i - 1) : Selected[j] < Selected[i])
                => /\ n_clusters_ = last.log[i].n
                   /\ model_ = last.models[i]

\* C6: a fit call ends in the configuration error exactly when max_clusters
\* exceeds the rows of X (equal passes); it does so before any candidate is
\* evaluated, and a selector without results still has none.
C6_RejectBeforeSweep ==
    calls > 0 =>
        /\ (pc = "idle" /\ outcome = "ValueError") <=> (max_clusters.val > X.rows)
        /\ outcome = "ValueError" =>
            /\ log = <<>>
            /\ ~last.valid => attrs = {}

C6_Witness ==
    /\ calls > 0 /\ pc = "idle" /\ outcome = "ValueError"
    /\ max_clusters.val = X.rows + 1
    /\ attrs = {}

\* C7: construction succeeds exactly for an int max_clusters >= 2 and then
\* stores both arguments unchanged; every other argument ends in ValueError or
\* TypeError and leaves no selector; fit only ever runs with max_clusters >= 2.
C7_ConstructionGate ==
    /\ ctorOutcome # "none" =>
        /\ ctorOutcome = "ok" <=> (ctorArg.type = "int" /\ ctorArg.val >= 2)
        /\ ctorOutcome = "ok" =>
            obj = "live" /\ max_clusters = ctorArg /\ random_state = ctorSeedArg
        /\ ctorOutcome # "ok" =>
            obj = "absent" /\ ctorOutcome \in {"ValueError", "TypeError"}
        /\ ctorArg.type \notin {"int", "bool"} => ctorOutcome = "TypeError"
    /\ (calls > 0 \/ pc # "idle") =>
        obj = "live" /\ max_clusters.type = "int" /\ max_clusters.val >= 2

C7_Witness ==
    /\ obj = "live" /\ ctorOutcome = "ok"
    /\ max_clusters.val = 2 /\ random_state.type = "int"
    /\ calls > 0

\* C8: with an integer random_state, a successful fit whose X and y are those
\* of the preceding successful fit on the selector leaves n_clusters_,
\* silhouette_ and ari_ as that fit left them.
C8_Determinism ==
    [][(/\ pc = "loop" /\ outcome' = "ok"
        /\ last.valid /\ last.X = X /\ last.y = y
        /\ random_state.type = "int")
       => (n_clusters_' = n_clusters_ /\ silhouette_' = silhouette_ /\ ari_' = ari_)]_vars

C8_Witness ==
    /\ FitOk /\ random_state.type = "int"
    /\ prevArgs.valid /\ prevArgs.X = X /\ prevArgs.y = y
    /\ y.some /\ max_clusters.val = 3

\* C9: while candidates remain, and when a primitive raises, no step of fit
\* changes n_clusters_, model_, silhouette_, ari_ or which of them exist.
C9_NoPartialWrite ==
    [][(pc = "loop" /\ (n <= max_clusters.val \/ outcome' = "Propagated"))
       => UNCHANGED results]_vars

C9_Witness ==
    /\ pc = "idle" /\ outcome = "Propagated"
    /\ Len(log) >= 1
    /\ last.valid /\ attrs = ResultAttrs
    /\ silhouette_ = last.silhouettes
    /\ last.y # y

\* C10: after a successful fit the result state is that of this call alone:
\* silhouette_ is this call's score list of max_clusters - 1 entries, ari_ is
\* this call's list when y was given and None when it was not, n_clusters_
\* and model_ are the ones selected from this call's lists.
C10_LastCallOnly ==
    FitOk =>
        /\ attrs = ResultAttrs
        /\ silhouette_ = last.silhouettes
        /\ Len(silhouette_) <= max_clusters.val - 1
        /\ y.some => ari_ = Some(last.aris) /\ Len(ari_.val) <= max_clusters.val - 1
        /\ ~y.some => ari_ = NoneList
        /\ n_clusters_ = SelectedCount(Selection(y, last.silhouettes, last.aris))
        /\ model_ = SelectedModel(last.models, Selection(y, last.silhouettes, last.aris))

C10_Witness ==
    /\ FitOk /\ ~y.some /\ ari_ = NoneList
    /\ prevArgs.valid /\ prevArgs.y.some
    /\ Len(silhouette_) = 2
=============================================================================
